---- MODULE Spec2Model ----
(***************************************************************************)
(* Model of Alert.py: the Steam Market price monitor.                      *)
(*                                                                         *)
(* Prices are Python floats in the source.  Here a price is the integer    *)
(* number of euro cents, so 5.0 is 500 and 11.48 is 1148.  Strings are     *)
(* sequences of one-character strings.  None is the value None below.      *)
(***************************************************************************)
EXTENDS Integers, Sequences, FiniteSets, TLC

VARIABLES
    phase,          \* where the process is: Initializing, Monitoring, Crashed, Cooldown, Terminated
    pc,             \* position inside the phase: request, delay, returned, sleep
    idx,            \* position of the current item in Config.SKINS (insertion order)
    attempt,        \* get_price: the loop variable `attempt`
    requests,       \* get_price: requests.get calls made by the current call
    delays,         \* get_price: time.sleep(2) calls made by the current call
    price,          \* main: what get_price returned (price / current_price), None when not live
    old_price,      \* main: the local old_price, None when not live
    exit,           \* the return statement get_price left by: price, invalid, exhausted
    base_prices,    \* main: the dict base_prices
    log,            \* the log files: per item, the last LogWindow lines of the file
    events,         \* what main, the logger, the notifier and the supervisor printed or
                    \* posted since the most recent requests.get, in order
    seen,           \* history: per item, the price its latest successful get_price
                    \* returned in this run of main, None before the first and
                    \* once an exception has ended the run
    call            \* a single function applied on its own: its arguments and result

vars == <<phase, pc, idx, attempt, requests, delays, price, old_price, exit, base_prices, log,
          events, seen, call>>

-----------------------------------------------------------------------------
(* Values *)

None == -1
ValueError == -2

\* get_price(skin_url, retries=3)
Retries == 3

\* check_price_change(..., threshold=10), in cents
Threshold == 1000

\* How many trailing lines of each log file the model keeps.  log_price_change
\* reads lines[-1] only, so older lines never influence the program.
LogWindow == 2

\* Config.SKINS: the configured items, in insertion order.
SKINS == <<"AK", "AWP">>

Names == {SKINS[i] : i \in 1..Len(SKINS)}

-----------------------------------------------------------------------------
(* Strings *)

Digits == <<"0", "1", "2", "3", "4", "5", "6", "7", "8", "9">>

IsDigit(c) == \E d \in 1..10 : Digits[d] = c

DigitVal(c) == (CHOOSE d \in 1..10 : Digits[d] = c) - 1

\* str.replace(old, new) for a one-character old
RECURSIVE Replace1(_, _, _)
Replace1(s, old, new) ==
    IF s = <<>> THEN <<>>
    ELSE (IF Head(s) = old THEN new ELSE <<Head(s)>>) \o Replace1(Tail(s), old, new)

\* str.replace("--", ""): leftmost non-overlapping occurrences
RECURSIVE RemoveDashes(_)
RemoveDashes(s) ==
    IF Len(s) < 2 THEN s
    ELSE IF s[1] = "-" /\ s[2] = "-" THEN RemoveDashes(SubSeq(s, 3, Len(s)))
    ELSE <<Head(s)>> \o RemoveDashes(Tail(s))

RECURSIVE LStrip(_)
LStrip(s) == IF s # <<>> /\ Head(s) = " " THEN LStrip(Tail(s)) ELSE s

RECURSIVE RStrip(_)
RStrip(s) == IF s # <<>> /\ s[Len(s)] = " " THEN RStrip(SubSeq(s, 1, Len(s) - 1)) ELSE s

\* str.strip()
Strip(s) == RStrip(LStrip(s))

\* needle in hay
Contains(hay, needle) ==
    \E i \in 0..(Len(hay) - Len(needle)) :
        SubSeq(hay, i + 1, i + Len(needle)) = needle

\* price_str.replace("$", "").replace("€", "").replace(",", ".").replace("--", "").strip()
Clean(price_str) ==
    Strip(RemoveDashes(Replace1(Replace1(Replace1(price_str, "$", <<>>), "€", <<>>), ",", <<".">>)))

-----------------------------------------------------------------------------
(* Numbers *)

RECURSIVE DigitsVal(_)
DigitsVal(ds) ==
    IF ds = <<>> THEN 0
    ELSE 10 * DigitsVal(SubSeq(ds, 1, Len(ds) - 1)) + DigitVal(ds[Len(ds)])

AllDigits(ds) == \A i \in 1..Len(ds) : IsDigit(ds[i])

\* float(clean), for an unsigned decimal literal with at most two fractional
\* digits: the value in cents, or ValueError.  "5." and ".5" are literals,
\* "", "." and "1.234.56" are not.
Float(clean) ==
    LET dots == {i \in 1..Len(clean) : clean[i] = "."}
        dot == IF dots = {} THEN Len(clean) + 1 ELSE CHOOSE i \in dots : \A j \in dots : i <= j
        int == SubSeq(clean, 1, dot - 1)
        frac == SubSeq(clean, dot + 1, Len(clean))
    IN  IF /\ AllDigits(int) /\ AllDigits(frac)
           /\ Len(int) + Len(frac) > 0
           /\ Len(frac) <= 2
        THEN 100 * DigitsVal(int)
             + (IF Len(frac) = 0 THEN 0
                ELSE IF Len(frac) = 1 THEN 10 * DigitsVal(frac)
                ELSE DigitsVal(frac))
        ELSE ValueError

\* The amounts below 25.50 whose product with 0.93 is an exact half cent and,
\* computed in binary floating point, falls just below it: 6.50 * 0.93 is
\* 6.045 and round(6.045, 2) is 6.04.  The other half cents round up.
HalfCentsDown == {650, 1250}

\* Variant: the product is cut to whole cents instead of rounded.
UsdToEurTruncated(cents) == (cents * 93) \div 100

\* round(price * 0.93, 2), to the nearest cent
UsdToEur(cents) ==
    IF cents \in HalfCentsDown THEN (cents * 93) \div 100
    ELSE (cents * 93 + 50) \div 100

RECURSIVE IntStr(_)
IntStr(n) == IF n < 10 THEN <<Digits[n + 1]>> ELSE IntStr(n \div 10) \o <<Digits[(n % 10) + 1]>>

\* f"{price}": the repr of a float with at most two decimals, e.g. 5.0, 10.5, 11.48
FormatPrice(cents) ==
    IntStr(cents \div 100) \o <<".">> \o
    (IF cents % 100 = 0 THEN <<"0">>
     ELSE IF cents % 10 = 0 THEN IntStr((cents % 100) \div 10)
     ELSE <<Digits[((cents % 100) \div 10) + 1], Digits[(cents % 10) + 1]>>)

-----------------------------------------------------------------------------
(* The price source *)

\* Values of the "lowest_price" field the price source may send.
PriceStrings ==
    { <<"0", ",", "0", "0", "€">>,
      <<"5", ",", "-", "-", "€">>,
      <<"1", "5", ",", "0", "0", "€">>,
      <<"$", "5", ".", "3", "8">>,
      <<"1", ".", "2", "3", "4", ",", "5", "6", "€">>,
      <<"-", "-">> }

\* What one requests.get(...).json() may give: ok is FALSE when the request or
\* the JSON decoding raises; otherwise the fields of the decoded object, a
\* missing "lowest_price" being the empty string.
Responses ==
    {[ok |-> FALSE, success |-> FALSE, lowest_price |-> <<>>]}
    \cup {[ok |-> TRUE, success |-> s, lowest_price |-> p] :
            s \in BOOLEAN, p \in PriceStrings \cup {<<>>}}

\* Variant: the success flag is not looked at.
ValidResponseIgnoresSuccess(resp) == resp.ok /\ resp.lowest_price # <<>>

\* if data.get("success") and data.get("lowest_price")
ValidResponse(resp) == resp.ok /\ resp.success /\ resp.lowest_price # <<>>

\* The body of get_price's inner try: the price, or None after a ValueError.
ParsePrice(price_str) ==
    LET f == Float(Clean(price_str))
    IN  IF f = ValueError THEN None
        ELSE IF Contains(price_str, <<"$">>) THEN UsdToEur(f)
        ELSE f

-----------------------------------------------------------------------------
(* The change log *)

\* datetime.now().strftime("%Y-%m-%d %H:%M:%S"), one sample value
Timestamp ==
    <<"2", "0", "2", "5", "-", "0", "1", "-", "0", "1", " ",
      "1", "2", ":", "0", "0", ":", "0", "0">>

\* f"{old_price} € ({timestamp}) -> {new_price} € ({timestamp})\n", without the newline
Entry(old, new) ==
    FormatPrice(old) \o <<" ", "€", " ", "(">> \o Timestamp \o <<")", " ", "-", ">", " ">>
    \o FormatPrice(new) \o <<" ", "€", " ", "(">> \o Timestamp \o <<")">>

\* lines[-1].strip() of the file, "" when the file is missing or empty
LastLine(file) == IF file = <<>> THEN <<>> ELSE Strip(file[Len(file)])

\* Variant: the check of the last line is dropped and every call writes.
IsNewPriceAlways(file, new) == TRUE

\* if not last_line or f"{new_price} €" not in last_line
IsNewPrice(file, new) ==
    \/ LastLine(file) = <<>>
    \/ ~Contains(LastLine(file), FormatPrice(new) \o <<" ", "€">>)

\* The last LogWindow lines of a file.
Window(file) ==
    IF Len(file) <= LogWindow THEN file
    ELSE SubSeq(file, Len(file) - LogWindow + 1, Len(file))

\* log_price_change: the file afterwards
log_price_change(file, old, new) ==
    IF IsNewPrice(file, new) THEN Window(Append(file, Entry(old, new))) ELSE file

-----------------------------------------------------------------------------
(* The notifier *)

\* What requests.post to the webhook may do.
PostOutcomes == {"200", "500", "exception"}

\* send_ifttt_notification: how it ends
send_ifttt_notification(outcome) ==
    IF outcome = "exception" THEN "raises" ELSE "returns"

\* Variant: the try/except around the POST is missing.
send_error_notification_unguarded(outcome) ==
    IF outcome = "exception" THEN "raises" ELSE "returns"

\* send_error_notification: how it ends
send_error_notification(outcome) == "returns"

\* Variant: the difference is taken without abs().
check_price_change_signed(old, new, threshold) ==
    IF old = None \/ new = None THEN FALSE
    ELSE new - old >= threshold

\* Variant: the comparison is strict.
check_price_change_strict(old, new, threshold) ==
    IF old = None \/ new = None THEN FALSE
    ELSE (IF new >= old THEN new - old ELSE old - new) > threshold

\* check_price_change
check_price_change(old, new, threshold) ==
    IF old = None \/ new = None THEN FALSE
    ELSE (IF new >= old THEN new - old ELSE old - new) >= threshold

-----------------------------------------------------------------------------
(* get_price *)

\* Variant: the loop runs once more than retries.
MoreAttemptsOffByOne(a, retries) == a + 1 <= retries

\* for attempt in range(retries): whether another iteration follows this one
MoreAttempts(a, retries) == a + 1 < retries

\* Variant: a ValueError is handled like any other failure and retried.
AttemptOutcomeRetriesInvalid(resp) ==
    IF ~ValidResponse(resp) \/ ParsePrice(resp.lowest_price) = None THEN "retry"
    ELSE "price"

\* How one iteration of get_price's loop ends for a response: it returns the
\* price, returns None after a ValueError, or falls through to time.sleep(2).
AttemptOutcome(resp) ==
    IF ~ValidResponse(resp) THEN "retry"
    ELSE IF ParsePrice(resp.lowest_price) = None THEN "invalid"
    ELSE "price"

\* The caller enters get_price(url): a fresh frame.
CallGetPrice ==
    /\ pc' = "request"
    /\ attempt' = 0
    /\ requests' = 0
    /\ delays' = 0
    /\ price' = None
    /\ exit' = "none"

\* Lines 12-37: one requests.get and what the loop body does with the response.
Request(resp) ==
    /\ phase \in {"Initializing", "Monitoring"}
    /\ pc = "request"
    /\ requests' = requests + 1
    /\ events' = <<>>
    /\ IF AttemptOutcome(resp) = "retry"
       THEN /\ pc' = "delay"
            /\ UNCHANGED <<price, exit>>
       ELSE /\ pc' = "returned"
            /\ price' = ParsePrice(resp.lowest_price)
            /\ exit' = AttemptOutcome(resp)
    /\ UNCHANGED <<phase, idx, attempt, delays, old_price, base_prices, log, seen, call>>

\* Lines 38-40: time.sleep(2), then the next iteration or the final return None.
RetryDelay ==
    /\ phase \in {"Initializing", "Monitoring"}
    /\ pc = "delay"
    /\ delays' = delays + 1
    /\ IF MoreAttempts(attempt, Retries)
       THEN /\ attempt' = attempt + 1
            /\ pc' = "request"
            /\ UNCHANGED <<price, exit>>
       ELSE /\ pc' = "returned"
            /\ price' = None
            /\ exit' = "exhausted"
            /\ UNCHANGED attempt
    /\ UNCHANGED <<phase, idx, requests, old_price, base_prices, log, events, seen, call>>

-----------------------------------------------------------------------------
(* main *)

\* base_prices = {}
EmptyPrices == [n \in {} |-> None]

\* Variant: setdefault, which keeps an existing entry.
PutIfAbsent(prices, skin_name, value) ==
    [n \in DOMAIN prices \cup {skin_name} |->
        IF n \in DOMAIN prices THEN prices[n] ELSE value]

\* base_prices[skin_name] = value
Put(prices, skin_name, value) ==
    [n \in DOMAIN prices \cup {skin_name} |-> IF n = skin_name THEN value ELSE prices[n]]

\* base_prices.get(skin_name, default)
Get(prices, skin_name, default) ==
    IF skin_name \in DOMAIN prices THEN prices[skin_name] ELSE default

\* if price: None and 0.0 are falsy
Truthy(p) == p # None /\ p # 0

\* Variant: the loop starts over at the first item each time.
NextIdxFirst(i) == 1

NextIdx(i) == IF i < Len(SKINS) THEN i + 1 ELSE 1

\* The history after get_price returned p for an item.
Saw(skin_name, p) == IF p = None THEN seen ELSE [seen EXCEPT ![skin_name] = p]

\* Lines 106-112: the initial loop's body after get_price returned, and the
\* step to the next item or into the monitoring loop.
InitItem ==
    /\ phase = "Initializing"
    /\ pc = "returned"
    /\ IF Truthy(price)
       THEN /\ base_prices' = Put(base_prices, SKINS[idx], price)
            /\ events' = <<"starting">>
       ELSE /\ UNCHANGED base_prices
            /\ events' = <<"could_not_fetch">>
    /\ phase' = IF idx = Len(SKINS) THEN "Monitoring" ELSE "Initializing"
    /\ idx' = NextIdx(idx)
    /\ CallGetPrice
    /\ seen' = Saw(SKINS[idx], price)
    /\ UNCHANGED <<old_price, log, call>>

\* Variant: a failed fetch also forgets the item's last known price.
SkipItemForgets ==
    /\ events' = <<"failed_fetch">>
    /\ idx' = NextIdx(idx)
    /\ CallGetPrice
    /\ base_prices' = [n \in DOMAIN base_prices \ {SKINS[idx]} |-> base_prices[n]]
    /\ UNCHANGED <<phase, old_price, log>>

\* Lines 119-121: the fetch failed; continue with the next item.
SkipItem ==
    /\ events' = <<"failed_fetch">>
    /\ idx' = NextIdx(idx)
    /\ CallGetPrice
    /\ UNCHANGED <<phase, old_price, base_prices, log>>

\* Lines 123-124 when the price equals old_price: straight to the sleep.
UnchangedItem(old) ==
    /\ old_price' = old
    /\ events' = <<>>
    /\ pc' = "sleep"
    /\ UNCHANGED <<phase, idx, attempt, requests, delays, price, exit, base_prices, log>>

\* An exception leaves main: the supervisor's except clause is next.
Raise(evs) ==
    /\ phase' = "Crashed"
    /\ pc' = "except"
    /\ events' = evs

\* Variant: the update of base_prices sits in the else branch, so a notified
\* change is not remembered.
ChangedItemUpdateInElse(item, old, post) ==
    LET written == IsNewPrice(log[item], price)
        logged == <<"changed", IF written THEN "logged" ELSE "no_change_to_log">>
    IN  /\ old_price' = old
        /\ log' = [log EXCEPT ![item] = log_price_change(log[item], old, price)]
        /\ UNCHANGED <<idx, attempt, requests, delays, price, exit>>
        /\ IF check_price_change(old, price, Threshold)
           THEN IF send_ifttt_notification(post) = "raises"
                THEN /\ Raise(logged \o <<"post_price">>)
                     /\ UNCHANGED base_prices
                ELSE /\ events' = logged \o
                            <<"post_price",
                              IF post = "200" THEN "notification_sent" ELSE "ifttt_error",
                              "significant">>
                     /\ UNCHANGED base_prices
                     /\ pc' = "sleep"
                     /\ UNCHANGED phase
           ELSE /\ events' = logged \o <<"minor">>
                /\ base_prices' = Put(base_prices, item, price)
                /\ pc' = "sleep"
                /\ UNCHANGED phase

\* Lines 125-138: the price differs from old_price.  The log store is taken to
\* be reliable: opening and writing the file do not raise.
ChangedItem(item, old, post) ==
    LET written == IsNewPrice(log[item], price)
        logged == <<"changed", IF written THEN "logged" ELSE "no_change_to_log">>
    IN  /\ old_price' = old
        /\ log' = [log EXCEPT ![item] = log_price_change(log[item], old, price)]
        /\ UNCHANGED <<idx, attempt, requests, delays, price, exit>>
        /\ IF check_price_change(old, price, Threshold)
           THEN IF send_ifttt_notification(post) = "raises"
                THEN /\ Raise(logged \o <<"post_price">>)
                     /\ UNCHANGED base_prices
                ELSE /\ events' = logged \o
                            <<"post_price",
                              IF post = "200" THEN "notification_sent" ELSE "ifttt_error",
                              "significant">>
                     /\ base_prices' = Put(base_prices, item, price)
                     /\ pc' = "sleep"
                     /\ UNCHANGED phase
           ELSE /\ events' = logged \o <<"minor">>
                /\ base_prices' = Put(base_prices, item, price)
                /\ pc' = "sleep"
                /\ UNCHANGED phase

\* Lines 119-138: the monitoring loop's body after get_price returned.
MonitorItem ==
    /\ phase = "Monitoring"
    /\ pc = "returned"
    /\ LET item == SKINS[idx]
           old == Get(base_prices, item, price)
       IN  IF price = None THEN SkipItem
           ELSE IF price # old
           THEN \E post \in PostOutcomes : ChangedItem(item, old, post)
           ELSE UnchangedItem(old)
    /\ seen' = IF phase' = "Crashed" THEN [n \in Names |-> None] ELSE Saw(SKINS[idx], price)
    /\ UNCHANGED call

\* Line 140: time.sleep(Config.CHECK_INTERVAL), then the next item's get_price.
IntervalSleep ==
    /\ phase = "Monitoring"
    /\ pc = "sleep"
    /\ idx' = NextIdx(idx)
    /\ old_price' = None
    /\ CallGetPrice
    /\ UNCHANGED <<phase, base_prices, log, events, seen, call>>

-----------------------------------------------------------------------------
(* The supervisor: the loop under __main__ *)

\* Lines 146-150: the except clause.  An exception raised inside it would leave
\* the while loop and end the process.
Supervise(post) ==
    /\ phase = "Crashed"
    /\ IF send_error_notification(post) = "returns"
       THEN /\ phase' = "Cooldown"
            /\ events' = <<"crashed", "post_error",
                           IF post = "200" THEN "sent_error_alert"
                           ELSE IF post = "500" THEN "failed_error_notification"
                           ELSE "could_not_send",
                           "restarting">>
       ELSE /\ phase' = "Terminated"
            /\ events' = <<"crashed", "post_error">>
    /\ pc' = "sleep"
    /\ price' = None
    /\ old_price' = None
    /\ UNCHANGED <<idx, attempt, requests, delays, exit, base_prices, log, seen, call>>

\* Variant: base_prices is kept across the restart.
RestartKeepsPrices ==
    /\ phase = "Cooldown"
    /\ phase' = "Initializing"
    /\ idx' = 1
    /\ CallGetPrice
    /\ seen' = [n \in Names |-> None]
    /\ UNCHANGED <<base_prices, old_price, log, events, call>>

\* Lines 151, 143-145 and 103-107: time.sleep(60), then main() again.
Restart ==
    /\ phase = "Cooldown"
    /\ phase' = "Initializing"
    /\ base_prices' = EmptyPrices
    /\ idx' = 1
    /\ CallGetPrice
    /\ seen' = [n \in Names |-> None]
    /\ UNCHANGED <<old_price, log, events, call>>

-----------------------------------------------------------------------------

\* The program as a whole applies no function on its own.
NoCall == [fn |-> "none"]

Init ==
    /\ phase = "Initializing"
    /\ pc = "request"
    /\ idx = 1
    /\ attempt = 0
    /\ requests = 0
    /\ delays = 0
    /\ price = None
    /\ old_price = None
    /\ exit = "none"
    /\ base_prices = EmptyPrices
    /\ log = [n \in Names |-> <<>>]
    /\ events = <<>>
    /\ seen = [n \in Names |-> None]
    /\ call = NoCall

Next ==
    \/ \E resp \in Responses : Request(resp)
    \/ RetryDelay
    \/ InitItem
    \/ MonitorItem
    \/ IntervalSleep
    \/ \E post \in PostOutcomes : Supervise(post)
    \/ Restart

Spec == Init /\ [][Next]_vars

-----------------------------------------------------------------------------
(* The functions on their own: one application per behaviour *)

\* The largest amount, in cents, of the price texts below.
MaxAmount == 1300

\* Amounts of a thousand and more, which the price source writes with a
\* thousands separator.
LargeAmounts == {100000, 123456}

Amounts == (0..MaxAmount) \cup LargeAmounts

TwoDigits(n) == <<Digits[(n \div 10) + 1], Digits[(n % 10) + 1]>>

ThreeDigits(n) == <<Digits[(n \div 100) + 1]>> \o TwoDigits(n % 100)

\* The whole part with a thousands separator, e.g. 1,234 or 1.234
Grouped(n, sep) ==
    IF n < 1000 THEN IntStr(n)
    ELSE IntStr(n \div 1000) \o <<sep>> \o ThreeDigits(n % 1000)

\* The ways the price source writes an amount.
Styles == {"usd", "usd_grouped", "eur", "eur_round", "eur_grouped", "plain"}

\* The "lowest_price" text of an amount: $12.34, $1,234.56, 10,50€, 5,--€,
\* 1.234,56€ and 10.50.  Only whole amounts are written with the -- placeholder.
PriceText(amount, style) ==
    LET whole == amount \div 100
        cents == TwoDigits(amount % 100)
    IN  CASE style = "usd" -> <<"$">> \o IntStr(whole) \o <<".">> \o cents
          [] style = "usd_grouped" -> <<"$">> \o Grouped(whole, ",") \o <<".">> \o cents
          [] style = "eur" -> IntStr(whole) \o <<",">> \o cents \o <<"€">>
          [] style = "eur_round" ->
                IntStr(whole) \o <<",">>
                \o (IF amount % 100 = 0 THEN <<"-", "-">> ELSE cents) \o <<"€">>
          [] style = "eur_grouped" -> Grouped(whole, ".") \o <<",">> \o cents \o <<"€">>
          [] OTHER -> IntStr(whole) \o <<".">> \o cents

\* Arguments of check_price_change: prices, None, and thresholds.
ArgPrices == {None, 0, 500, 1000, 1148, 1500, 1999, 2000}

ArgThresholds == {0, 500, Threshold}

CheckCalls ==
    {[fn |-> "check_price_change", old |-> a, new |-> b, threshold |-> t,
      done |-> FALSE, result |-> FALSE] :
        a \in ArgPrices, b \in ArgPrices, t \in ArgThresholds}

\* A response that signals success and carries the text of an amount.
PriceCalls ==
    {[fn |-> "get_price", amount |-> a, style |-> st, price_str |-> PriceText(a, st),
      done |-> FALSE, result |-> None] :
        a \in Amounts, st \in Styles}

FnInit ==
    /\ phase = "Initializing"
    /\ pc = "request"
    /\ idx = 1
    /\ attempt = 0
    /\ requests = 0
    /\ delays = 0
    /\ price = None
    /\ old_price = None
    /\ exit = "none"
    /\ base_prices = EmptyPrices
    /\ log = [n \in Names |-> <<>>]
    /\ events = <<>>
    /\ seen = [n \in Names |-> None]
    /\ \/ call \in CheckCalls
       \/ call \in PriceCalls

main_vars ==
    <<phase, pc, idx, attempt, requests, delays, price, old_price, exit, base_prices, log,
      events, seen>>

\* check_price_change(old_price, new_price, threshold) is applied.
ApplyCheck ==
    /\ call.fn = "check_price_change"
    /\ ~call.done
    /\ call' = [call EXCEPT !.done = TRUE,
                            !.result = check_price_change(call.old, call.new, call.threshold)]
    /\ UNCHANGED main_vars

\* get_price handles a response that signals success with the price text:
\* lines 15-33.
ApplyGetPrice ==
    /\ call.fn = "get_price"
    /\ ~call.done
    /\ call' = [call EXCEPT !.done = TRUE, !.result = ParsePrice(call.price_str)]
    /\ UNCHANGED main_vars

FnNext ==
    \/ ApplyCheck
    \/ ApplyGetPrice

FnSpec == FnInit /\ [][FnNext]_vars

\* Every call the program makes returns or fails: the process never stops on its own.
FairSpec == Spec /\ WF_vars(Next)

TypeOK ==
    /\ phase \in {"Initializing", "Monitoring", "Crashed", "Cooldown", "Terminated"}
    /\ pc \in {"request", "delay", "returned", "sleep", "except"}
    /\ idx \in 1..Len(SKINS)
    /\ attempt \in 0..(Retries - 1)
    /\ requests \in 0..Retries
    /\ delays \in 0..Retries
    /\ price \in Nat \cup {None}
    /\ old_price \in Nat \cup {None}
    /\ exit \in {"none", "price", "invalid", "exhausted"}
    /\ DOMAIN base_prices \subseteq Names
    /\ \A n \in DOMAIN base_prices : base_prices[n] \in Nat
    /\ \A n \in Names : Len(log[n]) <= LogWindow

-----------------------------------------------------------------------------
(* Vocabulary of the properties *)

Has(e) == \E i \in 1..Len(events) : events[i] = e

AbsDiff(a, b) == IF a >= b THEN a - b ELSE b - a

\* The monitoring loop holds a fetched price and is about to compare it.
Comparing == phase = "Monitoring" /\ pc = "returned" /\ price # None

\* The monitoring loop's body has run on a fetched price: it reached its sleep
\* or was left by an exception; price and old_price are those it compared.
Compared ==
    \/ phase = "Monitoring" /\ pc = "sleep"
    \/ phase = "Crashed" /\ pc = "except"

\* The responses that signal success with a non-empty price that float() rejects.
UnparseableResponses ==
    {resp \in Responses :
        /\ resp.ok /\ resp.success /\ resp.lowest_price # <<>>
        /\ Float(Clean(resp.lowest_price)) = ValueError}

\* The new_price field of a log line, in cents: the number between "-> " and " €".
NewPriceOf(line) ==
    LET gt == CHOOSE i \in 1..Len(line) : line[i] = ">"
        rest == SubSeq(line, gt + 2, Len(line))
        sp == CHOOSE i \in 1..Len(rest) : rest[i] = " " /\ \A j \in 1..(i - 1) : rest[j] # " "
    IN  Float(SubSeq(rest, 1, sp - 1))

\* A price-change POST was made and was not delivered: the webhook answered
\* with a non-success status, or the call raised (nothing is printed after it).
PriceDeliveryFailed ==
    \/ Has("ifttt_error")
    \/ events # <<>> /\ events[Len(events)] = "post_price"

-----------------------------------------------------------------------------
(* C1 *)

\* C1: every monitoring iteration whose fetched price differs from the item's
\* last known price, and which runs to its sleep, appends one entry to the
\* item's log, whatever the log already holds.
C1_EveryChangeLogged ==
    [][(/\ Comparing
        /\ price # Get(base_prices, SKINS[idx], price)
        /\ pc' = "sleep")
       => log'[SKINS[idx]] =
            Window(Append(log[SKINS[idx]],
                          Entry(Get(base_prices, SKINS[idx], price), price)))]_vars

(* C2 *)

\* C2: an item without a baseline (its fetch failed during Initializing) gets
\* the first price fetched for it in Monitoring as its baseline.
C2_LateBaseline ==
    [][(/\ Comparing
        /\ SKINS[idx] \notin DOMAIN base_prices
        /\ pc' = "sleep")
       => (/\ SKINS[idx] \in DOMAIN base_prices'
           /\ base_prices'[SKINS[idx]] = price)]_vars

(* C3 *)

\* C3: when a price-change notification is not delivered (non-success answer
\* or failed call), the monitor stays in Monitoring: nothing reaches the
\* supervisor.
C3_DeliveryFailureSwallowed ==
    PriceDeliveryFailed => phase = "Monitoring"

(* C4 *)

\* C4: in every log, no two consecutive entries have the same new_price.
C4_NoConsecutiveDuplicates ==
    \A n \in Names :
        \A i \in 1..(Len(log[n]) - 1) :
            NewPriceOf(log[n][i]) # NewPriceOf(log[n][i + 1])

\* A change to the price the log's last entry already records was detected
\* (after a restart) and not written again.
C4_Witness ==
    /\ phase = "Monitoring"
    /\ pc = "sleep"
    /\ Has("no_change_to_log")
    /\ Len(log[SKINS[idx]]) >= 2
    /\ NewPriceOf(log[SKINS[idx]][Len(log[SKINS[idx]])]) = price

(* C5 *)

\* C5: a call of get_price makes at most Retries requests and a bounded
\* number of steps, and when it gives up after failed attempts it has made
\* exactly Retries requests and returns None.
C5_BoundedAttempts ==
    /\ requests <= Retries
    /\ requests + delays <= 2 * Retries
    /\ (pc = "returned" /\ exit = "exhausted") => (requests = Retries /\ price = None)
    /\ (pc = "returned" /\ requests < Retries) => exit # "exhausted"

C5_Witness ==
    /\ pc = "returned"
    /\ exit = "exhausted"
    /\ requests = Retries
    /\ price = None

(* C6 *)

\* C6: a response that signals success with a non-empty price that does not
\* parse makes get_price return None on that attempt: no delay and no further
\* request follow, whatever the attempt number.
C6_InvalidNotRetried ==
    [][\A resp \in UnparseableResponses :
          (pc = "request" /\ Request(resp))
          => (/\ pc' = "returned"
              /\ price' = None
              /\ exit' = "invalid"
              /\ requests' = requests + 1
              /\ delays' = delays)]_vars

\* get_price returned None for an unparseable price on its first request.
C6_Witness ==
    /\ pc = "returned"
    /\ exit = "invalid"
    /\ price = None
    /\ requests = 1
    /\ requests < Retries

(* C7 *)

\* C7: an iteration reports a change exactly when the price differs from the
\* last known one, and in an iteration with a change the webhook is called
\* for a price change exactly when the absolute difference is at least the
\* threshold.
C7_NotifyIffThreshold ==
    /\ (phase = "Monitoring" /\ pc = "sleep") => (Has("changed") <=> price # old_price)
    /\ Has("post_price") => Has("changed")
    /\ (Compared /\ Has("changed")) =>
          (Has("post_price") <=> AbsDiff(price, old_price) >= Threshold)

\* A change of exactly the threshold was notified.
C7_Witness ==
    /\ phase = "Monitoring"
    /\ pc = "sleep"
    /\ Has("changed")
    /\ Has("post_price")
    /\ AbsDiff(price, old_price) = Threshold

(* C8 *)

\* C8: when get_price returned None in Monitoring, the iteration changes
\* neither base_prices nor any log, calls no webhook, and goes on to the next
\* item's fetch.
C8_SkipLeavesState ==
    [][(phase = "Monitoring" /\ pc = "returned" /\ price = None)
       => (/\ base_prices' = base_prices
           /\ log' = log
           /\ events' = <<"failed_fetch">>
           /\ phase' = "Monitoring"
           /\ idx' = NextIdx(idx)
           /\ pc' = "request"
           /\ requests' = 0)]_vars

\* An item that has a baseline was just skipped.
C8_Witness ==
    /\ phase = "Monitoring"
    /\ pc = "request"
    /\ events = <<"failed_fetch">>
    /\ \E i \in 1..Len(SKINS) : NextIdx(i) = idx /\ SKINS[i] \in DOMAIN base_prices

(* C9 *)

\* C9: the process is never in a terminal state and always has a next step;
\* from a crash the supervisor posts the error and goes to its cooldown, and
\* from the cooldown main starts again at the first item with an empty
\* base_prices.
C9_SupervisorRestarts ==
    /\ [](phase # "Terminated" /\ ENABLED Next)
    /\ [][/\ phase = "Crashed" => (phase' = "Cooldown" /\ Has("post_error")')
          /\ phase = "Cooldown" =>
                (/\ phase' = "Initializing"
                 /\ pc' = "request"
                 /\ idx' = 1
                 /\ DOMAIN base_prices' = {})]_vars

\* main has started again after a crash, with prices known before it.
C9_Witness ==
    /\ phase = "Initializing"
    /\ pc = "request"
    /\ requests = 0
    /\ idx = 1
    /\ Has("restarting")
    /\ DOMAIN base_prices = {}
    /\ \E n \in Names : log[n] # <<>>

(* C10 *)

\* C10: after the supervisor's error POST, whatever its outcome, the handler
\* has gone on to the cooldown: the POST never raises into the supervisor.
C10_ErrorNotifyNeverRaises ==
    Has("post_error") =>
        (/\ phase \in {"Cooldown", "Initializing"}
         /\ Has("restarting")
         /\ Has("sent_error_alert") \/ Has("failed_error_notification") \/ Has("could_not_send"))

\* The error POST failed with a network error and the supervisor is in its cooldown.
C10_Witness ==
    /\ phase = "Cooldown"
    /\ Has("could_not_send")

-----------------------------------------------------------------------------
(* C11 *)

CheckDone == call.fn = "check_price_change" /\ call.done

PriceDone == call.fn = "get_price" /\ call.done

\* C11: check_price_change(a, b, threshold) is true exactly when a and b are
\* both prices and their absolute difference is at least the threshold, false
\* when either is None, and the same with a and b swapped.
C11_CheckPriceChange ==
    CheckDone =>
        /\ call.result =
              (/\ call.old # None
               /\ call.new # None
               /\ AbsDiff(call.old, call.new) >= call.threshold)
        /\ (call.old = None \/ call.new = None) => call.result = FALSE
        /\ call.result = check_price_change(call.new, call.old, call.threshold)

\* A drop of exactly the threshold gives true.
C11_Witness ==
    /\ CheckDone
    /\ call.old = 1500
    /\ call.new = 500
    /\ call.threshold = Threshold
    /\ call.result = TRUE

(* C12 *)

UsdStyles == {"usd", "usd_grouped"}

\* The result is the amount times 0.93, to the nearest cent.
NearestCent(result, amount) == AbsDiff(100 * result, 93 * amount) <= 50

C13_EuroUnconverted ==
    (PriceDone /\ call.style \notin UsdStyles) => call.result = call.amount

-----------------------------------------------------------------------------
(* C14 *)

\* C14: every iteration of the monitoring loop that stays in Monitoring goes
\* through the interval sleep, whatever get_price returned.
C14_SleepEveryIteration ==
    [][(phase = "Monitoring" /\ pc = "returned" /\ phase' = "Monitoring")
       => pc' = "sleep"]_vars

(* C15 *)

\* C15: when an iteration on a fetched price has reached its sleep and the
\* item has an entry in base_prices, the entry is the fetched price.
C15_BaselineFollowsFetch ==
    (phase = "Monitoring" /\ pc = "sleep" /\ SKINS[idx] \in DOMAIN base_prices)
        => (price # None /\ base_prices[SKINS[idx]] = price)

\* A change was detected and the entry now holds the new price.
C15_Witness ==
    /\ phase = "Monitoring"
    /\ pc = "sleep"
    /\ Has("changed")
    /\ old_price # price
    /\ SKINS[idx] \in DOMAIN base_prices
    /\ base_prices[SKINS[idx]] = price

(* C16 *)

\* C16: in Initializing, every item whose get_price returned a number, 0
\* included, gets that number as its entry in base_prices.
C16_InitSeedsEveryPrice ==
    [][(phase = "Initializing" /\ pc = "returned" /\ price # None)
       => (/\ SKINS[idx] \in DOMAIN base_prices'
           /\ base_prices'[SKINS[idx]] = price)]_vars

(* C17 *)

\* The responses that decode but signal no success or carry no price.
RejectedResponses ==
    {resp \in Responses : resp.ok /\ ~(resp.success /\ resp.lowest_price # <<>>)}

\* C17: a response without the success flag or without a price never gives a
\* price: the attempt goes to the delay, and when attempts remain the delay
\* is followed by the next request; a returned price is a number.
C17_OnlyValidResponsesGivePrice ==
    /\ []((pc = "returned" /\ exit = "price") => price # None)
    /\ [][/\ \A resp \in RejectedResponses :
                (pc = "request" /\ Request(resp))
                => (pc' = "delay" /\ price' = None /\ exit' = "none")
          /\ (pc = "delay" /\ attempt + 1 < Retries)
                => (pc' = "request" /\ attempt' = attempt + 1 /\ requests' = requests)]_vars

\* A price came from the second request, after a failed first attempt.
C17_Witness ==
    /\ pc = "returned"
    /\ exit = "price"
    /\ price # None
    /\ requests = 2
    /\ delays = 1

(* C18 *)

\* C18: a call of get_price whose attempts all failed has slept between the
\* attempts only: one delay fewer than requests.
C18_DelaysBetweenAttempts ==
    (pc = "returned" /\ exit = "exhausted")
        => (requests = Retries /\ delays = Retries - 1)

(* C19 *)

\* A get_price call for item i has made a request.
Fetching(i) ==
    /\ phase \in {"Initializing", "Monitoring"}
    /\ pc \in {"delay", "returned"}
    /\ idx = i
    /\ requests >= 1

\* C19: when every call returns or fails, each item is fetched again and again.
C19_EveryItemFetched ==
    \A i \in 1..Len(SKINS) : []<>Fetching(i)

\* The last item is fetched in a run that follows a crash: the log line is
\* from an earlier run, since a run without baselines logs nothing.
C19_Witness ==
    /\ Fetching(Len(SKINS))
    /\ phase = "Monitoring"
    /\ Has("restarting") = FALSE
    /\ \E n \in Names : log[n] # <<>>
    /\ DOMAIN base_prices = {}

(* C20 *)

\* C20: an iteration on the price that the item's previous successful fetch
\* of this run returned writes no log line, calls no webhook and leaves
\* base_prices as it is.
C20_SamePriceReportsNothing ==
    [][(Comparing /\ seen[SKINS[idx]] = price)
       => (/\ log' = log
           /\ base_prices' = base_prices
           /\ events' = <<>>
           /\ phase' = "Monitoring"
           /\ pc' = "sleep")]_vars

\* After a logged change the same price came again and nothing was reported.
C20_Witness ==
    /\ phase = "Monitoring"
    /\ pc = "sleep"
    /\ events = <<>>
    /\ price = old_price
    /\ seen[SKINS[idx]] = price
    /\ log[SKINS[idx]] # <<>>
    /\ NewPriceOf(log[SKINS[idx]][Len(log[SKINS[idx]])]) = price

====
